---- MODULE Spec2Model ----
(***************************************************************************)
(* Model of the terminate-sidecar-job-controller (src/controller.go).      *)
(*                                                                         *)
(* The controller watches pods.  An add/update notification for a pod      *)
(* that is owned by a Job and is in phase Running puts the pod's           *)
(* namespace/name key on a rate limited work queue.  Workers take keys     *)
(* off the queue, re-read the pod from the lister, sort its containers     *)
(* into running/completed, and when istio-proxy is the only container      *)
(* still running they exec "kill -s TERM 1" in it.                         *)
(***************************************************************************)
EXTENDS Integers, Sequences, FiniteSets, TLC

\* ---------------------------------------------------------------- bounds

\* Longest list of container statuses given to the classifier on its own.
MaxLen == 3
\* How many execs the environment lets fail in the behaviours of FairSpec.
MaxFaults == 1
\* The rate limiter's per-item failure count saturates here (the code's
\* counter is unbounded).
MaxFailures == 1

\* ------------------------------------------------------------ data model

\* namespace/name keys of the pods the model follows.
PodKeys == {"ns/a", "ns/b"}
NoKey == "-"

\* Two items no handler puts on the queue: one that is not a string, and a
\* string with one "/" too many to be a namespace/name key.
NotAString == "<int 42>"
BadKey == "ns/a/b"
BadItems == {NotAString, BadKey}

\* What the queue may hold.
Items == PodKeys \cup BadItems

\* Run(ctx, workers): the worker goroutines.
Workers == {"w1", "w2"}

\* The sidecar set built by syncHandler.
sidecars == {"istio-proxy"}

\* Kind of the controller owner reference of a notification's object
\* ("none": the object has no controller owner reference).
OwnerKinds == {"none", "Job", "ReplicaSet"}

\* containerStatus.State.Terminated: "nil" or the Reason of the termination.
TermReasons == {"nil", "Completed", "Error", "OOMKilled"}

ContainerStatus(n, r, t) == [name |-> n, ready |-> r, terminated |-> t]

\* A pod as the lister returns it; Absent when Get fails with NotFound.
Absent == [present |-> FALSE, phase |-> "-", statuses |-> <<>>]
Pod(ph, st) == [present |-> TRUE, phase |-> ph, statuses |-> st]

\* The pod records the lister holds in the controller model: a Job pod with
\* one main container and the istio-proxy sidecar, at the stages of its life.
PodSnapshots ==
  { Pod("Pending", <<>>),
    Pod("Running", << ContainerStatus("main", TRUE, "nil"),
                      ContainerStatus("istio-proxy", TRUE, "nil") >>),
    Pod("Running", << ContainerStatus("main", FALSE, "Completed"),
                      ContainerStatus("istio-proxy", TRUE, "nil") >>) }

\* Further pods the lister may hold: the main container waiting or crashed
\* without a termination record, killed for lack of memory, still running
\* with the sidecar gone, and finished with the sidecar not ready.
MoreSnapshots ==
  { Pod("Running", << ContainerStatus("main", FALSE, "nil"),
                      ContainerStatus("istio-proxy", TRUE, "nil") >>),
    Pod("Running", << ContainerStatus("main", FALSE, "OOMKilled"),
                      ContainerStatus("istio-proxy", TRUE, "nil") >>),
    Pod("Running", << ContainerStatus("main", TRUE, "nil"),
                      ContainerStatus("istio-proxy", FALSE, "Error") >>),
    Pod("Running", << ContainerStatus("main", FALSE, "Error"),
                      ContainerStatus("istio-proxy", FALSE, "nil") >>) }

\* ---------------------------------------------------- syncHandler's logic

\* The loop over pod.Status.ContainerStatuses, from the i-th status on, with
\* the three sets built so far.
RECURSIVE classifyFrom(_, _, _)
classifyFrom(statuses, i, s) ==
  IF i > Len(statuses) THEN s
  ELSE LET c == statuses[i]
           a == s.all \cup {c.name}
       IN  IF c.ready
           THEN classifyFrom(statuses, i + 1,
                  [s EXCEPT !.all = a, !.running = @ \cup {c.name}])
           ELSE IF c.terminated # "nil" /\ (c.terminated = "Completed" \/ c.terminated = "Error")
                THEN classifyFrom(statuses, i + 1,
                       [s EXCEPT !.all = a, !.completed = @ \cup {c.name}])
                ELSE classifyFrom(statuses, i + 1, [s EXCEPT !.all = a])

\* The loop with the readiness test left out of the completed branch.
RECURSIVE classifyLooseFrom(_, _, _)
classifyLooseFrom(statuses, i, s) ==
  IF i > Len(statuses) THEN s
  ELSE LET c == statuses[i]
       IN  classifyLooseFrom(statuses, i + 1,
             [all |-> s.all \cup {c.name},
              running |-> IF c.ready THEN s.running \cup {c.name} ELSE s.running,
              completed |-> IF c.terminated \in {"Completed", "Error"}
                            THEN s.completed \cup {c.name} ELSE s.completed])

classifyLoose(statuses) ==
  classifyLooseFrom(statuses, 1, [all |-> {}, running |-> {}, completed |-> {}])

\* allContainers, runningContainers, completedContainers of syncHandler.
classify(statuses) ==
  classifyFrom(statuses, 1, [all |-> {}, running |-> {}, completed |-> {}])

\* The decision with the sidecars only required to be among the running.
shutdownDueSubset(s) ==
  IF (s.running \cup s.completed) = s.all
  THEN sidecars \subseteq s.running
  ELSE FALSE

\* The decision without the test that every container is accounted for.
shutdownDueUnaccounted(s) == s.running = sidecars

\* The two nested conditions guarding the call of sendShutdownSignal.
shutdownDue(s) ==
  IF (s.running \cup s.completed) = s.all
  THEN s.running = sidecars
  ELSE FALSE

\* ------------------------------------------------------------------ state

VARIABLES
  pods,        \* podsLister: key -> the pod record the informer cache holds
  workqueue,   \* the rate limiting work queue (queue, dirty, processing,
               \* items waiting out their back-off, failure counts, shut down)
  pc,          \* each worker's place in processNextWorkItem
  item,        \* obj: the key a worker took off the queue
  err,         \* the error syncHandler returned to a worker
  sig,         \* what sendShutdownSignal did in a worker's current item: how
               \* it ended and the containers the command was sent to
  crashed,     \* a panic has taken the process down
  faultsLeft,  \* failures of exec the environment may still cause (-1: any number)
  last,        \* what the last notification handler did, when that is recorded
  enq,         \* the pod as the lister held it when enqueuePod last put its
               \* key on the queue, when that is recorded
  prev,        \* the last call of syncHandler that returned: its key, the pod
               \* it read, whether it sent the kill command and the error it
               \* returned, when that is recorded
  obs,         \* a list of container statuses handed to the classifier alone
  verdict,     \* what the classifier and the decision made of obs
  sending      \* a call of sendShutdownSignal followed on its own: the set it
               \* was given, the containers its loop has yet to visit, the
               \* execs attempted per container, those that failed

ctlVars == <<pods, workqueue, pc, item, err, sig, crashed, faultsLeft, last, enq, prev>>
pureVars == <<obs, verdict, sending>>
vars == <<pods, workqueue, pc, item, err, sig, crashed, faultsLeft, last, enq, prev, obs, verdict, sending>>

\* ------------------------------------------------------ the work queue
\* workqueue.NewRateLimitingQueue(DefaultControllerRateLimiter()), by the
\* operations the controller calls on it.

RECURSIVE Count(_, _)
Count(q, k) ==
  IF q = <<>> THEN 0
  ELSE (IF Head(q) = k THEN 1 ELSE 0) + Count(Tail(q), k)

\* Add without the dirty set's deduplication.
AddNoDedup(q, k) ==
  IF q.shuttingDown THEN q
  ELSE IF k \in q.processing THEN [q EXCEPT !.dirty = @ \cup {k}]
  ELSE [q EXCEPT !.dirty = @ \cup {k}, !.queue = Append(@, k)]

\* workqueue.Add: dropped when shutting down or already dirty; a key that is
\* being processed is only marked dirty.
Add(q, k) ==
  IF q.shuttingDown THEN q
  ELSE IF k \in q.dirty THEN q
  ELSE IF k \in q.processing THEN [q EXCEPT !.dirty = @ \cup {k}]
  ELSE [q EXCEPT !.dirty = @ \cup {k}, !.queue = Append(@, k)]

\* Get that does not mark the key as being processed.
GetUnmarked(q) ==
  [q EXCEPT !.queue = Tail(@), !.dirty = @ \ {Head(q.queue)}]

\* workqueue.Get on a non-empty queue: the head moves from dirty to processing.
Get(q) ==
  [q EXCEPT !.queue = Tail(@),
            !.processing = @ \cup {Head(q.queue)},
            !.dirty = @ \ {Head(q.queue)}]

\* Done that leaves the key in the processing set.
DoneLeavesProcessing(q, k) ==
  IF k \in q.dirty THEN [q EXCEPT !.queue = Append(@, k)] ELSE q

\* Done that forgets a key marked dirty while it was processed.
DoneDropsDirty(q, k) == [q EXCEPT !.processing = @ \ {k}, !.dirty = @ \ {k}]

\* workqueue.Done: a key marked dirty while it was processed is queued again.
Done(q, k) ==
  IF k \in q.dirty
  THEN [q EXCEPT !.processing = @ \ {k}, !.queue = Append(@, k)]
  ELSE [q EXCEPT !.processing = @ \ {k}]

\* workqueue.AddRateLimited: the rate limiter counts one more failure of the
\* key and the key waits out its back-off before it is added.
AddRateLimited(q, k) ==
  IF q.shuttingDown
  THEN [q EXCEPT !.failures[k] = IF @ < MaxFailures THEN @ + 1 ELSE @]
  ELSE [q EXCEPT !.failures[k] = IF @ < MaxFailures THEN @ + 1 ELSE @,
                 !.waiting = @ \cup {k}]

\* workqueue.Forget: the rate limiter stops tracking the key.
Forget(q, k) == [q EXCEPT !.failures[k] = 0]

\* workqueue.ShutDown.
ShutDown(q) == [q EXCEPT !.shuttingDown = TRUE, !.waiting = {}]

\* ------------------------------------------------------------------- Init

\* No list has been classified.
Undecided ==
  [decided |-> FALSE, sets |-> [all |-> {}, running |-> {}, completed |-> {}],
   signalled |-> FALSE]

\* The containers a call of sendShutdownSignal may be given.
SignalNames == {"istio-proxy", "envoy", "vault-agent"}

\* sendShutdownSignal has not been called.
NotCalled ==
  [status |-> "idle", containers |-> {}, left |-> {},
   tried |-> [c \in SignalNames |-> 0], failed |-> {}]

\* The pods at enqueue are not recorded; they are, and no key has been
\* enqueued yet.
NotRecorded == [on |-> FALSE, at |-> [k \in PodKeys |-> Absent]]
NoneEnqueued == [on |-> TRUE, at |-> [k \in PodKeys |-> Absent]]

\* The calls of syncHandler are not remembered; they are, and there has been
\* none yet.
NotRemembered == [on |-> FALSE, key |-> NoKey, pod |-> Absent, due |-> FALSE, err |-> "nil"]
NoCallYet == [NotRemembered EXCEPT !.on = TRUE]

\* sendShutdownSignal has not been called for the worker's item.
NoSignal == [out |-> "none", at |-> {}]

EmptyQueue ==
  [queue |-> <<>>, dirty |-> {}, processing |-> {}, waiting |-> {},
   failures |-> [k \in Items |-> 0], shuttingDown |-> FALSE]

\* The controller as NewController leaves it, with Run having started the
\* workers ws.
InitCtl(ws) ==
  /\ workqueue = EmptyQueue
  /\ pc = [w \in Workers |-> IF w \in ws THEN "get" ELSE "stopped"]
  /\ item = [w \in Workers |-> NoKey]
  /\ err = [w \in Workers |-> "nil"]
  /\ sig = [w \in Workers |-> NoSignal]
  /\ crashed = FALSE

\* No pod is known yet, all workers wait on the queue; the handlers' doings
\* are not recorded.
Init ==
  /\ pods = [k \in PodKeys |-> Absent]
  /\ InitCtl(Workers)
  /\ faultsLeft = -1
  /\ last = "off"
  /\ enq = NotRecorded
  /\ prev = NotRemembered
  /\ obs = <<>>
  /\ verdict = Undecided
  /\ sending = NotCalled

\* Run with a single worker, and the handlers' doings recorded in last.
InitEvents ==
  /\ pods = [k \in PodKeys |-> Absent]
  /\ InitCtl({"w1"})
  /\ faultsLeft = -1
  /\ last = "none"
  /\ enq = NotRecorded
  /\ prev = NotRemembered
  /\ obs = <<>>
  /\ verdict = Undecided
  /\ sending = NotCalled

\* last after a handler did l: "resync" (an update with an unchanged resource
\* version was discarded), "not-job" (an object whose controller owner is no
\* Job was discarded), "coalesced" (a key already waiting in the queue was
\* added again), "none" (anything else).
note(l) == IF last = "off" THEN "off" ELSE l

\* ------------------------------------------------- notification handlers

\* The objects notifications carry: a pod's key, the kind of its controller
\* owner reference and its resource version.
\* Two resource versions: the handlers only compare them for equality.
ResourceVersions == {"1", "2"}

Objs == [key : PodKeys, owner : OwnerKinds, rv : ResourceVersions]
ObjsAt(rv) == [key : PodKeys, owner : OwnerKinds, rv : {rv}]

\* enqueuePod: the pod's namespace/name key is added to the work queue.
enqueuePod(k) ==
  /\ workqueue' = Add(workqueue, k)
  /\ enq' = IF enq.on /\ Add(workqueue, k) # workqueue
            THEN [enq EXCEPT !.at[k] = pods[k]] ELSE enq
  /\ last' = note(IF ~workqueue.shuttingDown /\ k \in workqueue.dirty
                  THEN "coalesced" ELSE "none")

\* The filter without the test of the owner's kind.
filterAnyOwner(obj) ==
  IF obj.owner = "none" THEN "no-owner"
  ELSE IF ~pods[obj.key].present THEN "orphan"
  ELSE IF pods[obj.key].phase # "Running" THEN "not-running"
  ELSE "enqueue"

\* What handleObject does with an object: the reason it returns early, or
\* "enqueue".
filter(obj) ==
  IF obj.owner = "none" THEN "no-owner"
  ELSE IF obj.owner # "Job" THEN "not-job"
  ELSE IF ~pods[obj.key].present THEN "orphan"
  ELSE IF pods[obj.key].phase # "Running" THEN "not-running"
  ELSE "enqueue"

handleObject(obj) ==
  /\ ~crashed
  /\ IF filter(obj) = "enqueue"
     THEN enqueuePod(obj.key)
     ELSE /\ last' = note(IF filter(obj) = "not-job" THEN "not-job" ELSE "none")
          /\ UNCHANGED <<workqueue, enq>>
  /\ UNCHANGED <<pods, pc, item, err, sig, crashed, faultsLeft, prev, pureVars>>

AddFunc(obj) == handleObject(obj)

\* UpdateFunc without the comparison of resource versions.
changedAlways(old, new) == TRUE

\* Whether UpdateFunc hands the new object on to handleObject.
changed(old, new) == new.rv # old.rv

UpdateFunc(old, new) ==
  IF changed(old, new)
  THEN handleObject(new)
  ELSE /\ ~crashed
       /\ last' = note("resync")
       /\ UNCHANGED <<pods, workqueue, pc, item, err, sig, crashed, faultsLeft, enq, prev, pureVars>>

handleDeleteObject(obj) ==
  /\ ~crashed
  /\ UNCHANGED vars

\* ---------------------------------------------------------------- workers

\* What can become of sendShutdownSignal's exec of "kill -s TERM 1":
\*   configErr    BuildConfigFromFlags fails: return before any exec
\*   executorErr  NewSPDYExecutor fails: logged, then exec.Stream is called
\*                on the nil executor
\*   streamErr    exec.Stream fails: logged
\*   ok           the command ran in the container
ExecOutcomes == {"ok", "configErr", "executorErr", "streamErr"}

\* The outcomes in which the call on the nil executor panics.
panics(o) == o = "executorErr"

\* The type assertion passing whatever the item is.
isStringAny(obj) == TRUE

\* key, ok = obj.(string)
isString(obj) == obj # NotAString

\* The number of "/" in a key.
Slashes(key) == IF key = BadKey THEN 2 ELSE 1

\* cache.SplitMetaNamespaceKey(key) returns an error: the key has more than
\* two parts.
splitErr(key) == Slashes(key) > 1

\* processNextWorkItem up to workqueue.Get: the worker takes the head of the
\* queue, or leaves its loop when the queue is shut down and drained.  An item
\* that is not a string is forgotten without a call of syncHandler.
processNextWorkItem(w) ==
  /\ ~crashed
  /\ pc[w] = "get"
  /\ IF workqueue.queue # <<>>
     THEN /\ item' = [item EXCEPT ![w] = Head(workqueue.queue)]
          /\ workqueue' = Get(workqueue)
          /\ pc' = [pc EXCEPT ![w] = IF isString(Head(workqueue.queue))
                                     THEN "sync" ELSE "finish"]
     ELSE /\ workqueue.shuttingDown
          /\ pc' = [pc EXCEPT ![w] = "stopped"]
          /\ UNCHANGED <<item, workqueue>>
  /\ UNCHANGED <<pods, err, sig, crashed, faultsLeft, last, enq, prev, pureVars>>

\* The pod read from a copy kept at enqueue instead of the lister.
podReadStale(k) == IF enq.on /\ enq.at[k].present THEN enq.at[k] ELSE pods[k]

\* podsLister.Pods(namespace).Get(name): the pod as the informer cache holds
\* it now, Absent standing for the NotFound error.
podRead(k) == pods[k]

\* The error syncHandler returns when the exec went as o ("none": no exec
\* was due).
syncResult(o) == "nil"

\* sendShutdownSignal(ctx, pod, containers) ending as o: the command is sent
\* to the containers when the executor could be made.
signalled(containers, o) ==
  [out |-> o, at |-> IF o \in {"ok", "streamErr"} THEN containers ELSE {}]

\* prev once syncHandler has returned e to worker w, having called
\* sendShutdownSignal or not (due).
returned(w, due, e) ==
  IF prev.on
  THEN [on |-> TRUE, key |-> item[w], pod |-> podRead(item[w]), due |-> due, err |-> e]
  ELSE prev

\* syncHandler(key), with sendShutdownSignal inside it: the pod is read from
\* the lister, its containers are classified, and when shutdown is due the
\* kill command is exec'ed in the sidecars with outcome o.
syncHandler(w, o) ==
  /\ ~crashed
  /\ pc[w] = "sync"
  /\ IF splitErr(item[w])
     THEN /\ o = "ok"
          /\ err' = [err EXCEPT ![w] = "nil"]
          /\ pc' = [pc EXCEPT ![w] = "finish"]
          /\ UNCHANGED <<sig, crashed, faultsLeft, workqueue, prev>>
     ELSE IF ~podRead(item[w]).present
     THEN /\ o = "ok"
          /\ err' = [err EXCEPT ![w] = "NotFound"]
          /\ pc' = [pc EXCEPT ![w] = "finish"]
          /\ prev' = returned(w, FALSE, "NotFound")
          /\ UNCHANGED <<sig, crashed, faultsLeft, workqueue>>
     ELSE IF ~shutdownDue(classify(podRead(item[w]).statuses))
     THEN /\ o = "ok"
          /\ err' = [err EXCEPT ![w] = "nil"]
          /\ pc' = [pc EXCEPT ![w] = "finish"]
          /\ prev' = returned(w, FALSE, "nil")
          /\ UNCHANGED <<sig, crashed, faultsLeft, workqueue>>
     ELSE /\ o # "ok" => faultsLeft # 0
          /\ faultsLeft' = IF o # "ok" /\ faultsLeft > 0 THEN faultsLeft - 1 ELSE faultsLeft
          /\ sig' = [sig EXCEPT ![w] = signalled(sidecars, o)]
          /\ IF panics(o)
             THEN \* the deferred workqueue.Done runs as the panic unwinds
                  /\ crashed' = TRUE
                  /\ workqueue' = Done(workqueue, item[w])
                  /\ pc' = [pc EXCEPT ![w] = "panicked"]
                  /\ UNCHANGED <<err, prev>>
             ELSE /\ err' = [err EXCEPT ![w] = syncResult(o)]
                  /\ pc' = [pc EXCEPT ![w] = "finish"]
                  /\ prev' = returned(w, TRUE, syncResult(o))
                  /\ UNCHANGED <<crashed, workqueue>>
  /\ UNCHANGED <<pods, item, last, enq, pureVars>>

\* What processNextWorkItem does with the key once syncHandler has returned e.
requeue(q, k, e) ==
  IF e # "nil" THEN AddRateLimited(q, k) ELSE Forget(q, k)

\* processNextWorkItem after syncHandler: the key is requeued on error and
\* forgotten otherwise, the deferred workqueue.Done(obj) runs, and the worker
\* goes round its loop.
finish(w) ==
  /\ ~crashed
  /\ pc[w] = "finish"
  /\ workqueue' = Done(requeue(workqueue, item[w], err[w]), item[w])
  /\ pc' = [pc EXCEPT ![w] = "get"]
  /\ item' = [item EXCEPT ![w] = NoKey]
  /\ err' = [err EXCEPT ![w] = "nil"]
  /\ sig' = [sig EXCEPT ![w] = NoSignal]
  /\ UNCHANGED <<pods, crashed, faultsLeft, last, enq, prev, pureVars>>

\* The delaying queue: a key whose back-off has run out is added.
backoffExpires(k) ==
  /\ ~crashed
  /\ k \in workqueue.waiting
  /\ workqueue' = Add([workqueue EXCEPT !.waiting = @ \ {k}], k)
  /\ UNCHANGED <<pods, pc, item, err, sig, crashed, faultsLeft, last, enq, prev, pureVars>>

\* ------------------------------------------------------------ Run and ctx

\* The context given to Run is cancelled: Run stops waiting on ctx.Done() and
\* returns, and its deferred workqueue.ShutDown runs.
Run ==
  /\ ~crashed
  /\ ~workqueue.shuttingDown
  /\ workqueue' = ShutDown(workqueue)
  /\ UNCHANGED <<pods, pc, item, err, sig, crashed, faultsLeft, last, enq, prev, pureVars>>

\* ------------------------------------------------------------ environment

\* The informer cache takes up a change of pod k: created, updated, deleted.
podChange(k, p) ==
  /\ ~crashed
  /\ p # pods[k]
  /\ pods' = [pods EXCEPT ![k] = p]
  /\ UNCHANGED <<workqueue, pc, item, err, sig, crashed, faultsLeft, last, enq, prev, pureVars>>

\* ------------------------------------------------------------------- Next

Next ==
  \/ \E obj \in ObjsAt("1") : AddFunc(obj)
  \/ \E new \in ObjsAt("2"), rv \in ResourceVersions :
        UpdateFunc([new EXCEPT !.rv = rv], new)
  \/ \E k \in PodKeys : handleDeleteObject([key |-> k, owner |-> "Job", rv |-> "2"])
  \/ \E w \in Workers : processNextWorkItem(w)
  \/ \E w \in Workers, o \in ExecOutcomes : syncHandler(w, o)
  \/ \E w \in Workers : finish(w)
  \/ \E k \in PodKeys : backoffExpires(k)
  \/ Run
  \/ \E k \in PodKeys, p \in PodSnapshots \cup {Absent} : podChange(k, p)

Spec == Init /\ [][Next]_vars

\* The controller run with one worker, with what its notification handlers do
\* recorded.
SpecEvents == InitEvents /\ [][Next]_vars

\* The controller with its goroutines scheduled fairly: a worker that can take
\* a step takes it, and a back-off that has run out adds its key.  Nothing is
\* assumed of notifications, pod changes, cancellation or exec outcomes.
Fairness ==
  /\ \A w \in Workers :
        /\ WF_vars(processNextWorkItem(w))
        /\ WF_vars(\E o \in ExecOutcomes : syncHandler(w, o))
        /\ WF_vars(finish(w))
  /\ \A k \in PodKeys : WF_vars(backoffExpires(k))

\* At most MaxFaults execs fail.
InitFair ==
  /\ pods = [k \in PodKeys |-> Absent]
  /\ InitCtl(Workers)
  /\ faultsLeft = MaxFaults
  /\ last = "off"
  /\ enq = NotRecorded
  /\ prev = NotRemembered
  /\ obs = <<>>
  /\ verdict = Undecided
  /\ sending = NotCalled

FairSpec == InitFair /\ [][Next]_vars /\ Fairness

\* The controller run with one worker, with the pod as it was at each enqueue
\* recorded.
InitStale ==
  /\ pods = [k \in PodKeys |-> Absent]
  /\ InitCtl({"w1"})
  /\ faultsLeft = -1
  /\ last = "off"
  /\ enq = NoneEnqueued
  /\ prev = NotRemembered
  /\ obs = <<>>
  /\ verdict = Undecided
  /\ sending = NotCalled

SpecStale == InitStale /\ [][Next]_vars

\* The controller run with one worker, with its last call of syncHandler
\* remembered.
InitTwice ==
  /\ pods = [k \in PodKeys |-> Absent]
  /\ InitCtl({"w1"})
  /\ faultsLeft = -1
  /\ last = "off"
  /\ enq = NotRecorded
  /\ prev = NoCallYet
  /\ obs = <<>>
  /\ verdict = Undecided
  /\ sending = NotCalled

SpecTwice == InitTwice /\ [][Next]_vars

\* The controller run with one worker, the lister holding the further pods
\* too.
InitWide ==
  /\ pods = [k \in PodKeys |-> Absent]
  /\ InitCtl({"w1"})
  /\ faultsLeft = -1
  /\ last = "off"
  /\ enq = NotRecorded
  /\ prev = NotRemembered
  /\ obs = <<>>
  /\ verdict = Undecided
  /\ sending = NotCalled

NextWide ==
  \/ Next
  \/ \E k \in PodKeys, p \in MoreSnapshots : podChange(k, p)

SpecWide == InitWide /\ [][NextWide]_vars

\* The controller with its queue holding, from the start, the two items no
\* handler puts there.
InitItems ==
  /\ pods = [k \in PodKeys |-> Absent]
  /\ workqueue = [EmptyQueue EXCEPT !.queue = <<NotAString, BadKey>>,
                                    !.dirty = BadItems]
  /\ pc = [w \in Workers |-> "get"]
  /\ item = [w \in Workers |-> NoKey]
  /\ err = [w \in Workers |-> "nil"]
  /\ sig = [w \in Workers |-> NoSignal]
  /\ crashed = FALSE
  /\ faultsLeft = -1
  /\ last = "off"
  /\ enq = NotRecorded
  /\ prev = NotRemembered
  /\ obs = <<>>
  /\ verdict = Undecided
  /\ sending = NotCalled

SpecItems == InitItems /\ [][Next]_vars

\* ------------------------------------------- the classifier on its own
\* syncHandler's classification and decision applied to any list of at most
\* MaxLen container statuses, repeated names included.

ObsNames == {"A", "B", "istio-proxy"}
ObsStatuses == [name : ObsNames, ready : BOOLEAN, terminated : TermReasons]
ObsLists == UNION {[1..n -> ObsStatuses] : n \in 0..MaxLen}

InitClassify ==
  /\ pods = [k \in PodKeys |-> Absent]
  /\ InitCtl(Workers)
  /\ faultsLeft = -1
  /\ last = "off"
  /\ enq = NotRecorded
  /\ prev = NotRemembered
  /\ obs \in ObsLists
  /\ verdict = Undecided
  /\ sending = NotCalled

\* The part of syncHandler between the read of the pod and its return, for a
\* pod whose container statuses are obs: the three sets, and whether
\* sendShutdownSignal is called.
reconcile ==
  /\ ~verdict.decided
  /\ verdict' = [decided |-> TRUE, sets |-> classify(obs),
                 signalled |-> shutdownDue(classify(obs))]
  /\ UNCHANGED <<ctlVars, obs, sending>>

SpecClassify == InitClassify /\ [][reconcile]_vars

\* ------------------------------------- sendShutdownSignal on its own
\* sendShutdownSignal(ctx, pod, containers) called with any set of
\* containers, each exec ending in any way it can.

InitSignal ==
  /\ pods = [k \in PodKeys |-> Absent]
  /\ InitCtl(Workers)
  /\ faultsLeft = -1
  /\ last = "off"
  /\ enq = NotRecorded
  /\ prev = NotRemembered
  /\ obs = <<>>
  /\ verdict = Undecided
  /\ sending \in {[NotCalled EXCEPT !.status = "called", !.containers = cs, !.left = cs] :
                    cs \in SUBSET SignalNames}

\* Where the call stands once the loop has the containers l left to visit.
loopStatus(l) == IF l = {} THEN "returned" ELSE "loop"

\* sendShutdownSignal up to its loop: BuildConfigFromFlags and AddToScheme;
\* when either fails the function returns at once.
signalSetup(ok) ==
  /\ sending.status = "called"
  /\ sending' = [sending EXCEPT !.status = IF ok THEN loopStatus(sending.left)
                                           ELSE "returned-early"]
  /\ UNCHANGED <<ctlVars, obs, verdict>>

\* One round of the loop over containers.ToSlice(), whose order is that of a
\* map: the exec into container c ends as o.  An error of NewSPDYExecutor is
\* logged and exec.Stream is then called on the nil executor; an error of
\* exec.Stream is logged and the loop goes on.
signalContainer(c, o) ==
  /\ sending.status = "loop"
  /\ c \in sending.left
  /\ o \in ExecOutcomes \ {"configErr"}
  /\ sending' =
       IF panics(o)
       THEN [sending EXCEPT !.status = "panicked",
                            !.tried[c] = @ + 1,
                            !.failed = @ \cup {c}]
       ELSE [sending EXCEPT !.status = loopStatus(sending.left \ {c}),
                            !.left = @ \ {c},
                            !.tried[c] = @ + 1,
                            !.failed = IF o = "ok" THEN @ ELSE @ \cup {c}]
  /\ UNCHANGED <<ctlVars, obs, verdict>>

sendShutdownSignal ==
  \/ \E ok \in BOOLEAN : signalSetup(ok)
  \/ \E c \in SignalNames, o \in ExecOutcomes : signalContainer(c, o)

SpecSignal == InitSignal /\ [][sendShutdownSignal]_vars

\* ----------------------------------------------------------------- claims

\* The names of obs, of its ready statuses, and of its statuses that are not
\* ready and terminated with Completed or Error.
NamesOf(l) == {l[i].name : i \in DOMAIN l}
ReadyOf(l) == {l[i].name : i \in {j \in DOMAIN l : l[j].ready}}
FinishedOf(l) ==
  {l[i].name : i \in {j \in DOMAIN l : ~l[j].ready /\ l[j].terminated \in {"Completed", "Error"}}}
DistinctNames(l) == \A i, j \in DOMAIN l : l[i].name = l[j].name => i = j

\* The three cases the specification lists, as status lists.
ExampleDue ==
  << ContainerStatus("A", FALSE, "Completed"), ContainerStatus("B", FALSE, "Error"),
     ContainerStatus("istio-proxy", TRUE, "nil") >>
ExampleStillRunning ==
  << ContainerStatus("A", TRUE, "nil"), ContainerStatus("B", FALSE, "Completed"),
     ContainerStatus("istio-proxy", TRUE, "nil") >>
ExampleUnaccounted ==
  << ContainerStatus("A", FALSE, "Completed"), ContainerStatus("B", FALSE, "nil"),
     ContainerStatus("istio-proxy", TRUE, "nil") >>

\* C2: syncHandler calls sendShutdownSignal exactly when every container name
\* of the pod's statuses is ready or finished (Completed/Error) and the ready
\* names are exactly {istio-proxy}; the three listed cases come out as due,
\* not due (A still running), not due (B unaccounted).
C2_DueIffAccountedAndOnlySidecarRuns ==
  verdict.decided =>
    /\ verdict.signalled <=>
         /\ ReadyOf(obs) \cup FinishedOf(obs) = NamesOf(obs)
         /\ ReadyOf(obs) = {"istio-proxy"}
    /\ obs = ExampleDue => verdict.signalled
    /\ obs = ExampleStillRunning => ~verdict.signalled
    /\ obs = ExampleUnaccounted => ~verdict.signalled

\* The first listed case has been decided, and shutdown was due.
C2_Witness ==
  /\ obs = ExampleDue
  /\ verdict.decided
  /\ verdict.signalled
  /\ verdict.sets.running = {"istio-proxy"}
  /\ verdict.sets.completed = {"A", "B"}

\* C3 as stated: for every list, repeated names included, running and
\* completed are disjoint subsets of all.
C3_DisjointForEveryList ==
  verdict.decided =>
    /\ verdict.sets.running \subseteq verdict.sets.all
    /\ verdict.sets.completed \subseteq verdict.sets.all
    /\ verdict.sets.running \cap verdict.sets.completed = {}

\* C3 amended: for every list in which no container name occurs twice (the
\* empty list included), all is the set of the list's names, running and
\* completed are disjoint subsets of all, and so every name is in exactly one
\* of running, completed and all \ (running \cup completed).
C3_DisjointForDistinctNames ==
  (verdict.decided /\ DistinctNames(obs)) =>
    /\ verdict.sets.all = NamesOf(obs)
    /\ verdict.sets.running \subseteq verdict.sets.all
    /\ verdict.sets.completed \subseteq verdict.sets.all
    /\ verdict.sets.running \cap verdict.sets.completed = {}
    /\ \A n \in NamesOf(obs) :
         Cardinality({x \in {"r", "c", "u"} :
            \/ x = "r" /\ n \in verdict.sets.running
            \/ x = "c" /\ n \in verdict.sets.completed
            \/ x = "u" /\ n \in verdict.sets.all \ (verdict.sets.running \cup verdict.sets.completed)}) = 1

\* A list of three different names has been classified with one name in each
\* of running, completed and unaccounted.
C3_Witness ==
  /\ verdict.decided
  /\ DistinctNames(obs)
  /\ Len(obs) = 3
  /\ Cardinality(verdict.sets.running) = 1
  /\ Cardinality(verdict.sets.completed) = 1
  /\ Cardinality(verdict.sets.all) = 3

\* The pod of key k is known, Running, every container other than istio-proxy
\* is not ready and terminated with Completed or Error, and istio-proxy is
\* ready.
PodDue(k) ==
  /\ pods[k].present
  /\ pods[k].phase = "Running"
  /\ \A i \in DOMAIN pods[k].statuses :
       LET c == pods[k].statuses[i]
       IN  IF c.name = "istio-proxy" THEN c.ready
           ELSE ~c.ready /\ c.terminated \in {"Completed", "Error"}
  /\ \E i \in DOMAIN pods[k].statuses : pods[k].statuses[i].name = "istio-proxy"

\* The kill command has run in the istio-proxy container of pod k.
Executed(k) == \E w \in Workers : item[w] = k /\ sig[w].out = "ok"

\* A worker holds key k: it is between workqueue.Get and workqueue.Done.
Holds(w, k) == pc[w] \in {"sync", "finish"} /\ item[w] = k

\* A step of a notification handler that reaches enqueuePod(k).
Enqueues(k) == enqueuePod(k) /\ UNCHANGED <<pods, pc, item, err, sig, crashed>>

\* Worker w's step from the return of syncHandler to the end of
\* processNextWorkItem.
Finishes(w) == pc[w] = "finish" /\ pc'[w] = "get"

\* C1: once the key of a due pod has been put on the queue by an admitted
\* notification, the kill command is eventually run in the pod's istio-proxy,
\* unless the pod leaves that state, the controller is shut down, or it has
\* crashed.
C1_DueLeadsToExec ==
  \A k \in PodKeys :
    (k \in workqueue.dirty /\ PodDue(k))
      ~> (Executed(k) \/ ~PodDue(k) \/ workqueue.shuttingDown \/ crashed)

\* C4: no two workers hold the same key at a time.
C4_OneWorkerPerKey ==
  \A w1, w2 \in Workers :
    (w1 # w2 /\ pc[w1] \in {"sync", "finish"} /\ pc[w2] \in {"sync", "finish"})
      => item[w1] # item[w2]

\* Both workers are inside syncHandler, on different keys, and one of the keys
\* has been enqueued again in the meantime.
C4_Witness ==
  \E w1, w2 \in Workers :
    /\ pc[w1] = "sync" /\ pc[w2] = "sync"
    /\ item[w1] # item[w2]
    /\ item[w1] \in workqueue.dirty

\* C5: a key is never in the queue twice, and enqueuing a key that is pending
\* (dirty, not being processed) leaves the work queue as it was, with its one
\* entry for the key.
C5_DedupUnderBurst ==
  /\ [](\A k \in PodKeys : Count(workqueue.queue, k) <= 1)
  /\ [][\A k \in PodKeys :
          (k \in workqueue.dirty /\ k \notin workqueue.processing /\ Enqueues(k))
            => (workqueue' = workqueue /\ Count(workqueue.queue, k) = 1)]_vars

\* A key waiting in the queue has been enqueued again and is there once.
C5_Witness ==
  /\ last = "coalesced"
  /\ \E k \in PodKeys :
       /\ workqueue.queue = <<k>>
       /\ workqueue.dirty = {k}
       /\ workqueue.processing = {}

\* C6 as stated: a key that is being processed is not in the queue; enqueuing
\* it then marks it dirty without queueing it; and the step that ends its
\* processing puts it back in the queue, once, exactly when it was marked.
C6_HeldBackUntilDoneAlways ==
  /\ [](\A k \in workqueue.processing : Count(workqueue.queue, k) = 0)
  /\ [][\A k \in PodKeys :
          (k \in workqueue.processing /\ Enqueues(k))
            => (workqueue'.queue = workqueue.queue /\ k \in workqueue'.dirty)]_vars
  /\ [][\A w \in Workers :
          Finishes(w) =>
            /\ item[w] \notin workqueue'.processing
            /\ Count(workqueue'.queue, item[w]) = IF item[w] \in workqueue.dirty THEN 1 ELSE 0
            /\ item[w] \in workqueue.dirty => item[w] \in workqueue'.dirty]_vars

\* C6 amended: the same, for enqueues that arrive before the queue is shut
\* down (workqueue.Add drops what is added to a queue that is shutting down).
C6_HeldBackUntilDone ==
  /\ [](\A k \in workqueue.processing : Count(workqueue.queue, k) = 0)
  /\ [][\A k \in PodKeys :
          (k \in workqueue.processing /\ ~workqueue.shuttingDown /\ Enqueues(k))
            => (workqueue'.queue = workqueue.queue /\ k \in workqueue'.dirty)]_vars
  /\ [][\A w \in Workers :
          Finishes(w) =>
            /\ item[w] \notin workqueue'.processing
            /\ Count(workqueue'.queue, item[w]) = IF item[w] \in workqueue.dirty THEN 1 ELSE 0
            /\ item[w] \in workqueue.dirty => item[w] \in workqueue'.dirty]_vars

\* A key is held by a worker and has been enqueued again: it is dirty, and not
\* in the queue.
C6_Witness ==
  \E w \in Workers, k \in PodKeys :
    /\ Holds(w, k)
    /\ k \in workqueue.dirty
    /\ Count(workqueue.queue, k) = 0

\* C7: a step of handleObject adds the object's key to the work queue when the
\* object's controller owner is a Job and the lister holds the pod in phase
\* Running; in every other case it leaves the work queue unchanged; it never
\* crashes the controller or touches a worker.
C7_EventFilter ==
  [][\A obj \in ObjsAt("1") :
       handleObject(obj) =>
         /\ IF /\ obj.owner = "Job"
               /\ pods[obj.key].present
               /\ pods[obj.key].phase = "Running"
            THEN workqueue' = Add(workqueue, obj.key)
            ELSE workqueue' = workqueue
         /\ UNCHANGED <<pods, pc, item, err, sig, crashed>>]_vars

\* An object owned by something other than a Job was the last to be handled,
\* both pods are Running, and the work queue is still as it was created.
C7_Witness ==
  /\ last = "not-job"
  /\ \A k \in PodKeys : pods[k].present /\ pods[k].phase = "Running"
  /\ workqueue = EmptyQueue

\* C8: a step of UpdateFunc with equal resource versions changes nothing of
\* the controller; with different ones it is a step of handleObject on the new
\* object.
C8_ResyncDiscarded ==
  [][\A new \in ObjsAt("2"), rv \in ResourceVersions :
       LET old == [new EXCEPT !.rv = rv]
       IN  UpdateFunc(old, new) =>
         IF old.rv = new.rv
         THEN UNCHANGED <<pods, workqueue, pc, item, err, sig, crashed>>
         ELSE handleObject(new)]_vars

\* An update with an unchanged resource version was the last to be handled,
\* both pods are Running, and the work queue is still as it was created.
C8_Witness ==
  /\ last = "resync"
  /\ \A k \in PodKeys : pods[k].present /\ pods[k].phase = "Running"
  /\ workqueue = EmptyQueue

\* C9 as stated: when syncHandler has failed with NotFound, the end of
\* processNextWorkItem schedules no retry of the key and counts no failure.
C9_NotFoundIsTerminal ==
  [][\A w \in Workers :
       (Finishes(w) /\ err[w] = "NotFound") =>
         /\ workqueue'.waiting = workqueue.waiting
         /\ workqueue'.failures[item[w]] = 0]_vars

\* C10 as stated: when the exec of a due shutdown has failed, syncHandler
\* returns an error.
C10_ExecFailureIsReturned ==
  \A w \in Workers :
    (pc[w] = "finish" /\ sig[w].out \notin {"none", "ok"}) => err[w] # "nil"

\* C11 as stated: when syncHandler has returned no error, the end of
\* processNextWorkItem resets the key's failure count, schedules no retry and
\* takes the key out of processing, whether or not the kill command was sent;
\* and unless the key was marked dirty in the meantime it is then neither
\* queued nor waiting for a retry, so that only a new notification brings it
\* back to a worker.
C11_SuccessForgetsAndAwaitsEvent ==
  [][\A w \in Workers :
       (Finishes(w) /\ err[w] = "nil") =>
         /\ workqueue'.failures[item[w]] = 0
         /\ workqueue'.waiting = workqueue.waiting
         /\ item[w] \notin workqueue'.processing
         /\ item[w] \notin workqueue.dirty =>
              /\ Count(workqueue'.queue, item[w]) = 0
              /\ item[w] \notin workqueue'.waiting]_vars

\* C12 as stated, with the retry ceiling at the largest failure count the
\* model keeps: a key that has already failed MaxFailures times in a row and
\* fails again is dropped, no further retry of it is scheduled.
C12_RetryCeiling ==
  [][\A w \in Workers :
       (/\ Finishes(w)
        /\ err[w] # "nil"
        /\ workqueue.failures[item[w]] >= MaxFailures
        /\ item[w] \notin workqueue.waiting)
         => item[w] \notin workqueue'.waiting]_vars

\* C13 as stated: once a call of sendShutdownSignal that got as far as its
\* loop is over, the command has been attempted exactly once in every
\* container of the set it was given, whichever execs failed; and no
\* container is ever attempted twice in one call.
C13_EveryContainerAttemptedOnce ==
  /\ \A c \in SignalNames : sending.tried[c] <= 1
  /\ sending.status \in {"returned", "panicked"} =>
       \A c \in sending.containers : sending.tried[c] = 1

\* C14 as stated: the controller is never crashed, and a worker whose read of
\* the pod or whose exec has failed is on its way back to the dequeue loop.
C14_NoCollaboratorErrorIsFatal ==
  /\ ~crashed
  /\ \A w \in Workers :
       (err[w] # "nil" \/ sig[w].out \notin {"none", "ok"}) => pc[w] = "finish"

\* Run has returned: its deferred workqueue.ShutDown has run.
RunReturned == workqueue.shuttingDown

\* C15 as stated: Run has returned only when no worker is between taking a
\* key off the queue and the end of processNextWorkItem, and once the queue
\* is shut down no worker takes a key off it.
C15_ShutdownOrdering ==
  /\ [](RunReturned => \A w \in Workers : pc[w] \notin {"sync", "finish"})
  /\ [][workqueue.shuttingDown =>
          \A w \in Workers : ~(pc[w] = "get" /\ pc'[w] = "sync")]_vars

\* Every container of the statuses st other than istio-proxy is not ready and
\* terminated with Completed or Error, and istio-proxy is there and ready.
StatusesDue(st) ==
  /\ \A i \in DOMAIN st :
       IF st[i].name = "istio-proxy" THEN st[i].ready
       ELSE ~st[i].ready /\ st[i].terminated \in {"Completed", "Error"}
  /\ \E i \in DOMAIN st : st[i].name = "istio-proxy"

\* Worker w's step through syncHandler.
Syncs(w) == pc[w] = "sync" /\ pc'[w] # "sync"

\* C16: syncHandler sends the kill command exactly when the pod, as the lister
\* holds it at that step, is there with every other container finished and
\* istio-proxy ready, and fails with NotFound exactly when the lister does not
\* hold the pod, whatever the pod was when its key was enqueued.
C16_DecisionFromCurrentState ==
  [][\A w \in Workers :
       Syncs(w) =>
         /\ sig'[w].out # "none" <=>
              (pods[item[w]].present /\ StatusesDue(pods[item[w]].statuses))
         /\ err'[w] = "NotFound" <=> ~pods[item[w]].present]_vars

\* The worker has sent the kill command for a key that was enqueued, and not
\* enqueued again since, when the pod's main container was still running.
C16_Witness ==
  \E w \in Workers :
    /\ pc[w] = "finish"
    /\ sig[w].out = "ok"
    /\ item[w] \notin workqueue.dirty
    /\ enq.on
    /\ enq.at[item[w]].present
    /\ ~StatusesDue(enq.at[item[w]].statuses)

\* C17: syncHandler is never called with the item that is not a string; the
\* handling of either malformed item ends without error and without an exec;
\* and the end of processNextWorkItem leaves the item forgotten, out of the
\* queue and with no retry scheduled.
C17_MalformedItemDropped ==
  /\ [](\A w \in Workers : pc[w] = "sync" => item[w] # NotAString)
  /\ [](\A w \in Workers :
          (pc[w] = "finish" /\ item[w] \in BadItems) =>
             (err[w] = "nil" /\ sig[w].out = "none"))
  /\ [](\A x \in BadItems : x \notin workqueue.waiting /\ workqueue.failures[x] = 0)
  /\ [][\A w \in Workers :
          (Finishes(w) /\ item[w] \in BadItems) =>
            /\ Count(workqueue'.queue, item[w]) = 0
            /\ item[w] \notin workqueue'.dirty
            /\ item[w] \notin workqueue'.processing]_vars

\* One worker is about to drop the item that is not a string and the other
\* has come back from syncHandler with the key that does not split.
C17_Witness ==
  \E w1, w2 \in Workers :
    /\ pc[w1] = "finish" /\ item[w1] = NotAString
    /\ pc[w2] = "finish" /\ item[w2] = BadKey

\* C18 as stated: a call of syncHandler for the key of the call before it,
\* reading the pod as that call read it, returns, sends the kill command if
\* and only if that call did, and returns the error that call returned.
C18_SecondReconcileAgrees ==
  [][\A w \in Workers :
       (Syncs(w) /\ prev.on /\ prev.key = item[w] /\ prev.pod = pods[item[w]]) =>
         /\ pc'[w] = "finish"
         /\ (sig'[w].out # "none") = prev.due
         /\ err'[w] = prev.err]_vars

\* C19: the kill command is only ever sent to istio-proxy, and a call of
\* syncHandler sends it only when, in the pod as read in that call, every
\* container other than istio-proxy is not ready and terminated with Completed
\* or Error.
C19_ExecOnlyInSidecarOfFinishedPod ==
  /\ [](\A w \in Workers : sig[w].at \subseteq {"istio-proxy"})
  /\ [][\A w \in Workers :
          (Syncs(w) /\ sig'[w].at # {}) =>
            LET st == pods[item[w]].statuses
            IN  \A i \in DOMAIN st :
                  st[i].name # "istio-proxy" =>
                    (~st[i].ready /\ st[i].terminated \in {"Completed", "Error"})]_vars

\* The kill command has been sent to the istio-proxy of a pod whose main
\* container has finished, while the other pod's main container is neither
\* ready nor terminated.
C19_Witness ==
  \E w \in Workers, k \in PodKeys :
    /\ pc[w] = "finish"
    /\ sig[w] = [out |-> "ok", at |-> {"istio-proxy"}]
    /\ StatusesDue(pods[item[w]].statuses)
    /\ k # item[w]
    /\ pods[k] = Pod("Running", << ContainerStatus("main", FALSE, "nil"),
                                   ContainerStatus("istio-proxy", TRUE, "nil") >>)

\* The items held by workers between workqueue.Get and workqueue.Done.
HeldItems == {item[w] : w \in {v \in Workers : pc[v] \in {"sync", "finish"}}}

\* C20: the queue's processing set is at all times the set of items held by
\* workers between Get and the end of processNextWorkItem; the step that ends
\* processNextWorkItem takes the worker's item, and nothing else, out of the
\* processing set, on the path of the non-string item, of success and of
\* failure alike; on the failure path the retry is scheduled in that same
\* step; and an item leaves the processing set by no other step than the one
\* that ends its worker's processNextWorkItem.
C20_DoneOncePerGet ==
  /\ [](workqueue.processing = HeldItems)
  /\ [][\A w \in Workers :
          Finishes(w) =>
            /\ item[w] \in workqueue.processing
            /\ workqueue'.processing = workqueue.processing \ {item[w]}
            /\ (err[w] # "nil" /\ ~workqueue.shuttingDown) =>
                  item[w] \in workqueue'.waiting]_vars
  /\ [][\A x \in Items :
          (x \in workqueue.processing /\ x \notin workqueue'.processing) =>
             \E w \in Workers : item[w] = x /\ pc[w] \in {"sync", "finish"}
                                /\ pc'[w] \in {"get", "panicked"}]_vars

\* One worker is about to finish with the non-string item and the other with
\* a key whose pod was not found, both in the processing set.
C20_Witness ==
  \E w1, w2 \in Workers :
    /\ pc[w1] = "finish" /\ item[w1] = NotAString
    /\ pc[w2] = "finish" /\ err[w2] = "NotFound"
    /\ workqueue.processing = {NotAString, item[w2]}

====
